---- MODULE Spec2Model ----
(***************************************************************************)
(* Model of dashboard.py: the Streamlit page of the Seoul real-estate      *)
(* dashboard.  One page render is the sequential script run (lines 10-317);*)
(* the st.cache_data caches survive between renders.                       *)
(*                                                                         *)
(* Tables (pandas DataFrames) are sequences of runs [row, n]: n consecutive*)
(* copies of one row.  Areas are kept in tenths of a square metre, so that *)
(* round(0) and astype(int) are computed and not assumed.                  *)
(***************************************************************************)
EXTENDS Integers, Sequences, FiniteSets, TLC

VARIABLES
  now,            \* wall clock, seconds
  file25,         \* the 2025 CSV as found on disk
  file26,         \* the 2026 CSV as found on disk
  cache25,        \* st.cache_data entry of load_2025_csv
  cacheLocal,     \* st.cache_data entry of load_local_data
  cacheFetch,     \* st.cache_data entries of fetch_2026_api_data, by api key
  API_KEY,        \* module global resolved at lines 17-31
  option,         \* sidebar radio, line 137
  refresh,        \* sidebar button, line 139
  area_choice,    \* tab2 radio, line 245
  pc,             \* position of the script run
  df25, df26, df_raw, df,
  mega_filtered, taegang_filtered, target_area,
  ran,            \* aggregation steps executed in this render
  hits,           \* cached functions served from the cache in this render
  bodies,         \* cached functions whose body ran in this render
  warm,           \* cached functions holding a live entry after line 141
  http,           \* requests.get calls made in this render
  fallbacks,      \* times the alt_area branch (lines 258-264) was entered
  reported,       \* area shown by st.info at line 267, 0 when not shown
  fpc,            \* position inside fetch_2026_api_data
  api_key, max_pages, page, all_rows,
  requests,       \* the URLs requested, in order
  responses,      \* what the server answered, in order
  result          \* return value of fetch_2026_api_data

envVars    == <<now, file25, file26>>
cacheVars  == <<cache25, cacheLocal, cacheFetch>>
inputVars  == <<API_KEY, option, refresh>>
tableVars  == <<df25, df26, df_raw, df>>
aggVars    == <<mega_filtered, taegang_filtered, target_area, area_choice,
                ran, fallbacks, reported>>
ghostVars  == <<hits, bodies, warm>>
fetchVars  == <<fpc, api_key, max_pages, page, all_rows, requests, responses,
                result>>
vars == <<now, file25, file26, cache25, cacheLocal, cacheFetch, API_KEY,
          option, refresh, area_choice, pc, df25, df26, df_raw, df,
          mega_filtered, taegang_filtered, target_area, ran, hits, bodies,
          warm, http, fallbacks, reported, fpc, api_key, max_pages, page,
          all_rows, requests, responses, result>>

----------------------------------------------------------------------------
(* Bounds of the model *)

MaxPagesArg == 6        \* max_pages arguments tried: 0..MaxPagesArg
MaxRuns     == 3        \* longest input table drawn for the pipeline
MaxClock    == 3600     \* the clock stops advancing here
Tick        == 1800     \* seconds that may pass between two renders

(* Program constants *)

PageSize        == 1000     \* window of one page
LastOffset      == 999      \* end_idx = start_idx + 999
DefaultMaxPages == 5
TTL             == 3600     \* st.cache_data(ttl=3600)
HttpOk          == 200

----------------------------------------------------------------------------
(* Values *)

None == "<None>"
NaN  == -999999             \* missing ARCH_AREA / AREA_ROUND
NaT  == [y |-> 0, m |-> 0, d |-> 0]
NaNPrice == [nan |-> TRUE, num |-> 0, den |-> 1]
NullName == <<"<NA>">>      \* missing BLDG_NM

EmptyDataFrame == <<>>      \* pd.DataFrame()

Run(r, n) == [row |-> r, n |-> n]

RECURSIVE NumRows(_)
NumRows(t) == IF t = <<>> THEN 0 ELSE t[1].n + NumRows(Tail(t))

IsEmpty(t) == NumRows(t) = 0        \* DataFrame.empty

concat(a, b) == a \o b              \* pd.concat([a, b], ignore_index=True)

Row(day, name, area, kind, val, src) ==
  [CTRT_DAY |-> day, BLDG_NM |-> name, ARCH_AREA |-> area,
   THING_AMT |-> [kind |-> kind, val |-> val], src |-> src]

\* "if api_key" / "if not api_key": None and "" are falsy
TruthyNoneOnly(k) == k # None
Truthy(k) == k \notin {None, ""}

----------------------------------------------------------------------------
(* fetch_2026_api_data, lines 58-82 *)

service_name == "tbLnOpendataRtmsV"

\* the rows the remote service holds in window p
ApiRow(p) ==
  CASE p = 0 -> Row(0,        <<"gongneung", "taegang">>, 598, "numstr", 61000, 100)
    [] p = 1 -> Row(20260105, <<"gongneung", "taegang">>, 598, "numstr", 62000, 101)
    [] p = 2 -> Row(20260210, <<"songpa", "helio">>,      849, "numstr", 230000, 102)
    [] OTHER -> Row(20260301, <<"parkrio">>,              844, "text",   0, 100 + p)

PageRows(p, n) == IF n = 0 THEN <<>> ELSE <<Run(ApiRow(p), n)>>

ErrorKinds == {"exception", "no_key", "no_row"}
RowCounts  == {0, 400, 1000}

Responses ==
  {[kind |-> k, status |-> HttpOk, n |-> 0] : k \in ErrorKinds}
    \cup {[kind |-> "status", status |-> s, n |-> 0] : s \in {500}}
    \cup {[kind |-> "ok", status |-> HttpOk, n |-> c] : c \in RowCounts}

\* lines 72-75: the response carries rows to extend all_rows with
Accepted(resp) == resp.kind = "ok" /\ resp.status = HttpOk

\* line 66: for page in range(max_pages)
InRangeInclusive(p, mp) == p <= mp
InRange(p, mp) == p < mp

\* lines 77-80: the loop goes on to the next page
GoesOnAlways(resp, rows) == TRUE
GoesOnUnlessError(resp, rows) == Accepted(resp)
GoesOn(resp, rows) == Accepted(resp) /\ ~(NumRows(rows) < PageSize)

Url(key, p) ==
  LET start_idx == (p * PageSize) + 1
      end_idx   == start_idx + LastOffset
  IN  [key |-> key, service |-> service_name, page |-> p,
       start_idx |-> start_idx, end_idx |-> end_idx, year |-> 2026]

FetchEntry ==
  /\ fpc = "entry"
  /\ IF ~Truthy(api_key)
     THEN /\ result' = EmptyDataFrame
          /\ fpc' = "returned"
          /\ UNCHANGED <<all_rows, page>>
     ELSE /\ all_rows' = <<>>
          /\ page' = 0
          /\ fpc' = "loop"
          /\ UNCHANGED result
  /\ UNCHANGED <<api_key, max_pages, requests, responses, http>>
  /\ UNCHANGED <<envVars, cacheVars, inputVars, tableVars, aggVars, ghostVars, pc>>

FetchPage ==
  /\ fpc = "loop"
  /\ InRange(page, max_pages)
  /\ \E resp \in Responses :
       LET rows == IF Accepted(resp) THEN PageRows(page, resp.n) ELSE <<>>
       IN  /\ requests' = Append(requests, Url(api_key, page))
           /\ responses' = Append(responses, resp)
           /\ http' = http + 1
           /\ all_rows' = all_rows \o rows
           /\ IF GoesOn(resp, rows)
              THEN fpc' = "loop" /\ page' = page + 1
              ELSE fpc' = "break" /\ page' = page
  /\ UNCHANGED <<api_key, max_pages, result>>
  /\ UNCHANGED <<envVars, cacheVars, inputVars, tableVars, aggVars, ghostVars, pc>>

FetchFinish ==
  /\ \/ fpc = "break"
     \/ fpc = "loop" /\ ~InRange(page, max_pages)
  /\ result' = all_rows
  /\ fpc' = "returned"
  /\ UNCHANGED <<api_key, max_pages, page, all_rows, requests, responses, http>>
  /\ UNCHANGED <<envVars, cacheVars, inputVars, tableVars, aggVars, ghostVars, pc>>

----------------------------------------------------------------------------
(* Cached loaders, lines 84-124 *)

AbsentEntry == [present |-> FALSE, val |-> <<>>, at |-> 0]
Entry(v, t) == [present |-> TRUE, val |-> v, at |-> t]

\* a ttl entry is served while less than ttl seconds old
Valid(e, t) == e.present /\ t - e.at < TTL

\* st.cache_data.clear(), line 141
ClearedFetchOnly(c25, cl, cf) ==
  [c25 |-> c25, cLocal |-> cl, cFetch |-> [k \in DOMAIN cf |-> AbsentEntry]]
Cleared(c25, cl, cf) ==
  [c25 |-> AbsentEntry, cLocal |-> AbsentEntry,
   cFetch |-> [k \in DOMAIN cf |-> AbsentEntry]]

NoFile == [exists |-> FALSE, enc |-> "utf-8", table |-> <<>>]
File(enc, t) == [exists |-> TRUE, enc |-> enc, table |-> t]

\* pd.read_csv(p, encoding='utf-8'), on failure pd.read_csv(p, encoding='cp949')
read_csv(f) ==
  IF f.enc \in {"utf-8", "cp949"}
  THEN [raised |-> FALSE, table |-> f.table]
  ELSE [raised |-> TRUE, table |-> <<>>]

\* body of load_2025_csv, lines 86-104
load_2025_csv(f) ==
  IF f.exists THEN read_csv(f)
  ELSE [raised |-> FALSE, table |-> EmptyDataFrame]

\* body of load_local_data after df25 is known, lines 111-124
load_local_data(d25, f26) ==
  IF f26.exists
  THEN LET r == read_csv(f26)
       IN  [raised |-> r.raised, table |-> concat(d25, r.table)]
  ELSE [raised |-> FALSE, table |-> d25]

----------------------------------------------------------------------------
(* preprocess_data, lines 126-133 *)

IsLeap(y) == (y % 4 = 0 /\ y % 100 # 0) \/ y % 400 = 0

DaysIn(y, m) ==
  CASE m \in {1, 3, 5, 7, 8, 10, 12} -> 31
    [] m \in {4, 6, 9, 11} -> 30
    [] OTHER -> IF IsLeap(y) THEN 29 ELSE 28

\* pd.to_datetime(v, format='%Y%m%d', errors='coerce')
to_datetime(v) ==
  LET y == v \div 10000
      m == (v \div 100) % 100
      d == v % 100
  IN  IF y \in 1000..9999 /\ m \in 1..12 /\ d \in 1..DaysIn(y, m)
      THEN [y |-> y, m |-> m, d |-> d]
      ELSE NaT

DateGE(a, b) ==
  \/ a.y > b.y
  \/ a.y = b.y /\ a.m > b.m
  \/ a.y = b.y /\ a.m = b.m /\ a.d >= b.d

Cutoff == [y |-> 2025, m |-> 1, d |-> 1]       \* '2025-01-01'

\* line 130
KeepsAll(d) == TRUE
Keeps(d) == DateGE(d, Cutoff)

\* pd.to_numeric(x, errors='coerce')
to_numeric(x) ==
  IF x.kind \in {"num", "numstr"}
  THEN [nan |-> FALSE, num |-> x.val, den |-> 1]
  ELSE NaNPrice

\* x / 10000.0
Divide(x, k) == IF x.nan THEN x ELSE [x EXCEPT !.den = @ * k]

preprocess_data(t) ==
  IF IsEmpty(t) THEN t
  ELSE LET parsed  == [i \in 1..Len(t) |->
                         [t[i] EXCEPT !.row.CTRT_DAY = to_datetime(@)]]
           dropped == SelectSeq(parsed, LAMBDA r : r.row.CTRT_DAY # NaT)
           recent  == SelectSeq(dropped, LAMBDA r : Keeps(r.row.CTRT_DAY))
       IN  [i \in 1..Len(recent) |->
              [recent[i] EXCEPT
                 !.row.THING_AMT = Divide(to_numeric(@), 10000)]]

----------------------------------------------------------------------------
(* get_filtered_mega_data, lines 172-199 *)

mega_complexes_keywords ==
  << <<"helio">>, <<"parkrio">>, <<"els">>, <<"ricenz">>, <<"gracium">>,
     <<"arteon">>, <<"olympic_village">>, <<"centlas">>, <<"mapo_raemian">>,
     <<"foreon">> >>

\* python "k in name": k is a contiguous part of name
Contains(name, k) ==
  \E i \in 1..(Len(name) - Len(k) + 1) : SubSeq(name, i, i + Len(k) - 1) = k

\* Series.str.contains('|'.join(keywords), na=False)
str_contains(name, keywords) ==
  IF name = NullName THEN FALSE
  ELSE \E j \in 1..Len(keywords) : Contains(name, keywords[j])

SetMin(S) == CHOOSE x \in S : \A y \in S : x <= y

\* lines 181-184: the first keyword, in list order, found in the name
get_group_name(name, keywords) ==
  LET found == {j \in 1..Len(keywords) : Contains(name, keywords[j])}
  IN  IF found = {} THEN name ELSE keywords[SetMin(found)]

\* Series.round(0) on tenths: round half to even
round0(a) ==
  IF a = NaN THEN NaN
  ELSE LET q == a \div 10
           r == a % 10
       IN  IF r < 5 THEN q
           ELSE IF r > 5 THEN q + 1
           ELSE IF q % 2 = 0 THEN q ELSE q + 1

RECURSIVE unique(_)
unique(s) ==
  IF s = <<>> THEN <<>>
  ELSE LET h == Head(s)
       IN  <<h>> \o unique(SelectSeq(Tail(s), LAMBDA x : x # h))

\* rows of table t whose column col holds v
Weight(t, col, v) == NumRows(SelectSeq(t, LAMBDA r : r.row[col] = v))

\* Series.mode(): the values of highest count, ascending; NaN is not counted
mode_rarest(group, col) ==
  LET vals == {group[i].row[col] : i \in 1..Len(group)} \ {NaN}
  IN  {v \in vals : \A w \in vals : Weight(group, col, v) <= Weight(group, col, w)}
mode(group, col) ==
  LET vals == {group[i].row[col] : i \in 1..Len(group)} \ {NaN}
  IN  {v \in vals : \A w \in vals : Weight(group, col, v) >= Weight(group, col, w)}

\* lines 192-197 for one group
MegaGroup(m_df, g_name) ==
  LET group     == SelectSeq(m_df, LAMBDA r : r.row.GROUP_NM = g_name)
      main_area == SetMin(mode(group, "AREA_ROUND"))      \* mode()[0]
      group_filtered == SelectSeq(group, LAMBDA r : r.row.AREA_ROUND = main_area)
  IN  [i \in 1..Len(group_filtered) |->
         [group_filtered[i] EXCEPT !.row = @ @@ [MAIN_AREA |-> main_area]]]

RECURSIVE MegaConcat(_, _)
MegaConcat(m_df, gs) ==
  IF gs = <<>> THEN <<>>
  ELSE MegaGroup(m_df, Head(gs)) \o MegaConcat(m_df, Tail(gs))

get_filtered_mega_data(t, keywords) ==
  LET sel  == SelectSeq(t, LAMBDA r : str_contains(r.row.BLDG_NM, keywords))
      m_df == [i \in 1..Len(sel) |->
                 [sel[i] EXCEPT !.row = @ @@
                    [GROUP_NM   |-> get_group_name(sel[i].row.BLDG_NM, keywords),
                     AREA_ROUND |-> round0(sel[i].row.ARCH_AREA)]]]
      gs   == unique([i \in 1..Len(m_df) |-> m_df[i].row.GROUP_NM])
      \* mode()[0] of a group with no area at all raises
      bad  == \E i \in 1..Len(gs) :
                mode(SelectSeq(m_df, LAMBDA r : r.row.GROUP_NM = gs[i]),
                     "AREA_ROUND") = {}
  IN  IF bad THEN [raised |-> TRUE, table |-> <<>>]
      ELSE [raised |-> FALSE, table |-> MegaConcat(m_df, gs)]

----------------------------------------------------------------------------
(* Tab 2, lines 241-309 *)

AreaChoices == {"49 type", "59 type"}

\* line 249
Selected(choice) == IF choice = "49 type" THEN 49 ELSE 59

\* Series.astype(int) on tenths: truncation toward zero
astype_round(a) == round0(a)
astype_int(a) == IF a >= 0 THEN a \div 10 ELSE -((-a) \div 10)

\* line 259
alt_area_same(target) == target
alt_area(target) == IF target = 49 THEN 50 ELSE 60

WithAreaInt(t) ==
  [i \in 1..Len(t) |->
     [t[i] EXCEPT !.row = @ @@ [AREA_INT |-> astype_int(t[i].row.ARCH_AREA)]]]

Detail(t, choice) ==
  LET target   == Selected(choice)
      sel      == SelectSeq(t, LAMBDA r : str_contains(r.row.BLDG_NM, << <<"taegang">> >>))
      raised   == \E i \in 1..Len(sel) : sel[i].row.ARCH_AREA = NaN
      taegang_df == WithAreaInt(sel)
      primary  == SelectSeq(taegang_df, LAMBDA r : r.row.AREA_INT = target)
      alt      == SelectSeq(taegang_df, LAMBDA r : r.row.AREA_INT = alt_area(target))
      tried    == IsEmpty(primary)
      adopted  == tried /\ ~IsEmpty(alt)
      final    == IF adopted THEN alt ELSE primary
      area     == IF adopted THEN alt_area(target) ELSE target
  IN  [raised |-> raised, filtered |-> final, target_area |-> area,
       fallbacks |-> IF tried THEN 1 ELSE 0,
       reported |-> IF IsEmpty(final) THEN 0 ELSE area]

----------------------------------------------------------------------------
(* Input rows *)

Taegang == <<"gongneung", "taegang">>

RowSeq ==
  << Row(20250310, <<"songpa", "helio">>,   844, "num",    230000, 1),
     Row(20250411, <<"helio">>,             845, "num",    231000, 2),
     Row(20250512, <<"helio", "2">>,        855, "num",    240000, 3),
     Row(20250613, <<"parkrio", "helio">>,  594, "num",    180000, 4),
     Row(20250714, <<"parkrio">>,           844, "numstr", 250000, 5),
     Row(20250815, <<"jamsil", "parkrio">>, 594, "num",    190000, 6),
     Row(20250916, Taegang,                 489, "num",    56000,  7),
     Row(20251017, Taegang,                 496, "num",    57000,  8),
     Row(20251118, Taegang,                 502, "num",    58000,  9),
     Row(20251219, Taegang,                 601, "num",    66000,  10),
     Row(20250120, Taegang,                 NaN, "num",    50000,  11),
     Row(20241231, <<"helio">>,             844, "num",    220000, 12),
     Row(20251340, Taegang,                 496, "num",    57500,  13),
     Row(20250101, Taegang,                 598, "text",   0,      14),
     Row(20250229, NullName,                844, "null",   0,      15),
     Row(20260102, <<"helio">>,             NaN, "num",    232000, 16) >>

Tables ==
  UNION {[1..k -> {Run(RowSeq[i], 1) : i \in 1..Len(RowSeq)}] : k \in 0..MaxRuns}

T(ids) == [i \in 1..Len(ids) |-> Run(RowSeq[ids[i]], 1)]

\* what may lie on disk: <<2025 file, 2026 file>>
Disks ==
  { <<NoFile, NoFile>>,
    <<File("cp949", T(<<1, 8, 12>>)), File("utf-8", T(<<10, 3>>))>>,
    <<File("binary", <<>>), NoFile>> }

ApiKeys == {"k1", "k2"}
AllKeys == {None, ""} \cup ApiKeys
Options == {"api", "local"}

----------------------------------------------------------------------------
(* The page script, lines 135-167 *)

\* a cached call of load_2025_csv: [raised, table, entry, hit]
Call25(entry, f) ==
  IF entry.present
  THEN [raised |-> FALSE, table |-> entry.val, entry |-> entry, hit |-> TRUE]
  ELSE LET r == load_2025_csv(f)
       IN  [raised |-> r.raised, table |-> r.table, hit |-> FALSE,
            entry |-> IF r.raised THEN entry ELSE Entry(r.table, 0)]

\* lines 17-31, 137-141
Setup ==
  /\ pc \in {"start", "done", "stopped", "raised"}
  /\ \E dt \in {0, Tick} :
       /\ now + dt <= MaxClock
       /\ now' = now + dt
       /\ \E key \in AllKeys, opt \in Options, r \in BOOLEAN :
            LET c == IF r THEN Cleared(cache25, cacheLocal, cacheFetch)
                     ELSE [c25 |-> cache25, cLocal |-> cacheLocal,
                           cFetch |-> cacheFetch]
            IN  /\ API_KEY' = key /\ option' = opt /\ refresh' = r
                /\ cache25' = c.c25 /\ cacheLocal' = c.cLocal
                /\ cacheFetch' = c.cFetch
                /\ warm' = {f \in {"load_2025_csv"} : c.c25.present}
                      \cup {f \in {"load_local_data"} : c.cLocal.present}
                      \cup {f \in {"fetch_2026_api_data"} :
                              /\ Truthy(key)
                              /\ c.cFetch[key].present
                              /\ now' - c.cFetch[key].at < TTL}
                /\ pc' = IF opt = "api" THEN "load25" ELSE "local"
  /\ hits' = {} /\ bodies' = {} /\ http' = 0 /\ ran' = {}
  /\ fallbacks' = 0 /\ reported' = 0 /\ target_area' = 0
  /\ df25' = <<>> /\ df26' = <<>> /\ df_raw' = <<>> /\ df' = <<>>
  /\ mega_filtered' = <<>> /\ taegang_filtered' = <<>>
  /\ area_choice' = "49 type"          \* read at line 245
  /\ UNCHANGED <<file25, file26, fetchVars>>

\* lines 144-147
Load25 ==
  /\ pc = "load25"
  /\ LET c == Call25(cache25, file25)
     IN  /\ cache25' = c.entry
         /\ df25' = c.table
         /\ hits' = IF c.hit THEN hits \cup {"load_2025_csv"} ELSE hits
         /\ bodies' = IF c.hit THEN bodies ELSE bodies \cup {"load_2025_csv"}
         /\ pc' = IF c.raised THEN "raised"
                  ELSE IF Truthy(API_KEY) THEN "fetch_call" ELSE "no_key"
  /\ UNCHANGED <<envVars, cacheLocal, cacheFetch, inputVars, df26, df_raw, df,
                 aggVars, warm, http, fetchVars>>

\* lines 152-154
NoKey ==
  /\ pc = "no_key"
  /\ df_raw' = df25
  /\ pc' = "preprocess"
  /\ UNCHANGED <<envVars, cacheVars, inputVars, df25, df26, df, aggVars,
                 ghostVars, http, fetchVars>>

\* line 149: the cached call of fetch_2026_api_data(API_KEY)
FetchCall ==
  /\ pc = "fetch_call"
  /\ IF Valid(cacheFetch[API_KEY], now)
     THEN /\ df26' = cacheFetch[API_KEY].val
          /\ df_raw' = concat(df25, cacheFetch[API_KEY].val)
          /\ hits' = hits \cup {"fetch_2026_api_data"}
          /\ pc' = "preprocess"
          /\ UNCHANGED <<bodies, fetchVars>>
     ELSE /\ fpc' = "entry"
          /\ api_key' = API_KEY
          /\ max_pages' = DefaultMaxPages
          /\ page' = 0 /\ all_rows' = <<>> /\ result' = <<>>
          /\ requests' = <<>> /\ responses' = <<>>
          /\ bodies' = bodies \cup {"fetch_2026_api_data"}
          /\ pc' = "await_fetch"
          /\ UNCHANGED <<df26, df_raw, hits>>
  /\ UNCHANGED <<envVars, cacheVars, inputVars, df25, df, aggVars, warm, http>>

\* lines 149-151: the value is stored and merged
FetchReturn ==
  /\ pc = "await_fetch" /\ fpc = "returned"
  /\ cacheFetch' = [cacheFetch EXCEPT ![API_KEY] = Entry(result, now)]
  /\ df26' = result
  /\ df_raw' = concat(df25, result)
  \* the frame of the call is gone
  /\ fpc' = "idle" /\ api_key' = None /\ max_pages' = DefaultMaxPages
  /\ page' = 0 /\ all_rows' = <<>> /\ requests' = <<>> /\ responses' = <<>>
  /\ result' = <<>>
  /\ pc' = "preprocess"
  /\ UNCHANGED <<envVars, cache25, cacheLocal, inputVars, df25, df, aggVars,
                 ghostVars, http>>

\* lines 156-157: the cached call of load_local_data()
LoadLocal ==
  /\ pc = "local"
  /\ IF cacheLocal.present
     THEN /\ df_raw' = cacheLocal.val
          /\ hits' = hits \cup {"load_local_data"}
          /\ pc' = "preprocess"
          /\ UNCHANGED <<cache25, cacheLocal, bodies>>
     ELSE LET c == Call25(cache25, file25)
              r == load_local_data(c.table, file26)
              failed == c.raised \/ r.raised
          IN  /\ cache25' = c.entry
              /\ hits' = IF c.hit THEN hits \cup {"load_2025_csv"} ELSE hits
              /\ bodies' = bodies \cup {"load_local_data"}
                             \cup (IF c.hit THEN {} ELSE {"load_2025_csv"})
              /\ cacheLocal' = IF failed THEN cacheLocal ELSE Entry(r.table, 0)
              /\ df_raw' = IF failed THEN df_raw ELSE r.table
              /\ pc' = IF failed THEN "raised" ELSE "preprocess"
  /\ UNCHANGED <<envVars, cacheFetch, inputVars, df25, df26, df, aggVars, warm,
                 http, fetchVars>>

\* line 159
Preprocess ==
  /\ pc = "preprocess"
  /\ df' = preprocess_data(df_raw)
  /\ pc' = "guard"
  /\ UNCHANGED <<envVars, cacheVars, inputVars, df25, df26, df_raw, aggVars,
                 ghostVars, http, fetchVars>>

\* line 163
StopsNever(t) == FALSE
Stops(t) == IsEmpty(t)

\* lines 162-167
Guard ==
  /\ pc = "guard"
  /\ pc' = IF Stops(df) THEN "stopped" ELSE "mega"
  /\ UNCHANGED <<envVars, cacheVars, inputVars, tableVars, aggVars, ghostVars,
                 http, fetchVars>>

\* line 201
Mega ==
  /\ pc = "mega"
  /\ LET r == get_filtered_mega_data(df, mega_complexes_keywords)
     IN  /\ mega_filtered' = r.table
         /\ pc' = IF r.raised THEN "raised" ELSE "tab1"
  /\ ran' = ran \cup {"mega"}
  /\ UNCHANGED <<envVars, cacheVars, inputVars, tableVars, taegang_filtered,
                 target_area, area_choice, fallbacks, reported, ghostVars,
                 http, fetchVars>>

\* lines 203-239: tables, monthly means and summary of the mega complexes
Tab1 ==
  /\ pc = "tab1"
  /\ ran' = IF IsEmpty(mega_filtered) THEN ran ELSE ran \cup {"trend1"}
  /\ pc' = "tab2"
  /\ UNCHANGED <<envVars, cacheVars, inputVars, tableVars, mega_filtered,
                 taegang_filtered, target_area, area_choice, fallbacks,
                 reported, ghostVars, http, fetchVars>>

\* lines 241-309
Tab2 ==
  /\ pc = "tab2"
  /\ \E choice \in AreaChoices :
       LET r == Detail(df, choice)
       IN  /\ area_choice' = choice
           /\ IF r.raised
              THEN /\ pc' = "raised"
                   /\ ran' = ran \cup {"detail"}
                   /\ target_area' = Selected(choice)
                   /\ UNCHANGED <<taegang_filtered, fallbacks, reported>>
              ELSE /\ pc' = "done"
                   /\ taegang_filtered' = r.filtered
                   /\ target_area' = r.target_area
                   /\ fallbacks' = r.fallbacks
                   /\ reported' = r.reported
                   /\ ran' = ran \cup {"detail"}
                        \cup (IF IsEmpty(r.filtered) THEN {} ELSE {"trend2"})
  /\ UNCHANGED <<envVars, cacheVars, inputVars, tableVars, mega_filtered,
                 ghostVars, http, fetchVars>>

----------------------------------------------------------------------------
(* Specifications *)

ColdCaches ==
  /\ cache25 = AbsentEntry /\ cacheLocal = AbsentEntry
  /\ cacheFetch = [k \in AllKeys |-> AbsentEntry]

FreshRender ==
  /\ API_KEY = None /\ option = "api" /\ refresh = FALSE
  /\ area_choice = "49 type"
  /\ df25 = <<>> /\ df26 = <<>> /\ df = <<>>
  /\ mega_filtered = <<>> /\ taegang_filtered = <<>> /\ target_area = 0
  /\ ran = {} /\ hits = {} /\ bodies = {} /\ warm = {}
  /\ http = 0 /\ fallbacks = 0 /\ reported = 0

IdleFetch ==
  /\ fpc = "idle" /\ api_key = None /\ max_pages = DefaultMaxPages /\ page = 0
  /\ all_rows = <<>> /\ requests = <<>> /\ responses = <<>> /\ result = <<>>

\* the page as served: any files on disk, renders one after another
Init ==
  /\ now = 0
  /\ \E d \in Disks : file25 = d[1] /\ file26 = d[2]
  /\ ColdCaches /\ FreshRender /\ IdleFetch
  /\ df_raw = <<>> /\ pc = "start"

Next ==
  \/ Setup \/ Load25 \/ NoKey \/ FetchCall \/ FetchEntry \/ FetchPage
  \/ FetchFinish \/ FetchReturn \/ LoadLocal \/ Preprocess \/ Guard \/ Mega
  \/ Tab1 \/ Tab2

Spec == Init /\ [][Next]_vars

\* fetch_2026_api_data called on its own, with any key and any max_pages
InitFetch ==
  /\ now = 0 /\ file25 = NoFile /\ file26 = NoFile
  /\ ColdCaches /\ FreshRender
  /\ df_raw = <<>> /\ pc = "unit"
  /\ fpc = "entry"
  /\ api_key \in AllKeys
  /\ max_pages \in 0..MaxPagesArg
  /\ page = 0 /\ all_rows = <<>> /\ requests = <<>> /\ responses = <<>>
  /\ result = <<>>

NextFetch == FetchEntry \/ FetchPage \/ FetchFinish

SpecFetch == InitFetch /\ [][NextFetch]_vars

\* the interpreter runs the function to its return
FairSpecFetch == SpecFetch /\ WF_vars(NextFetch)

\* lines 159-309 run on any merged table
InitTable ==
  /\ now = 0 /\ file25 = NoFile /\ file26 = NoFile
  /\ ColdCaches /\ FreshRender /\ IdleFetch
  /\ df_raw \in Tables /\ pc = "preprocess"

NextTable == Preprocess \/ Guard \/ Mega \/ Tab1 \/ Tab2

SpecTable == InitTable /\ [][NextTable]_vars

----------------------------------------------------------------------------
(* Properties of fetch_2026_api_data *)

Full  == [kind |-> "ok", status |-> HttpOk, n |-> PageSize]
Short == [kind |-> "ok", status |-> HttpOk, n |-> 400]

\* the server of the pagination test: 1000 rows on pages 0-2, 400 on page 3
ServerC1(p) == IF p = 3 THEN Short ELSE Full
\* a server that has 1000 rows on every page
ServerC2(p) == Full

\* every answer so far is the one server S gives for the page asked
Follows(S(_)) ==
  /\ Len(responses) = Len(requests)
  /\ \A i \in 1..Len(responses) : responses[i] = S(requests[i].page)

RECURSIVE RowsOfPages(_)
\* the rows the first k answers carried, in page order
RowsOfPages(k) ==
  IF k = 0 THEN <<>>
  ELSE RowsOfPages(k - 1) \o PageRows(requests[k].page, responses[k].n)

\* C1: pages are requested in increasing order from page 0, each as the window
\* [1000p+1, 1000p+1000]; a page with fewer than 1000 rows is the last one
\* requested; against the server with 1000, 1000, 1000, 400 rows the call
\* returns 3400 rows after requesting pages 0..3 and never page 4.
C1_Pagination ==
  /\ \A i \in 1..Len(requests) :
       /\ requests[i].page = i - 1
       /\ requests[i].start_idx = 1000 * (i - 1) + 1
       /\ requests[i].end_idx = 1000 * (i - 1) + 1000
  /\ \A i \in 1..Len(responses) :
       (responses[i].kind = "ok" /\ responses[i].n < 1000) => i = Len(requests)
  /\ (Follows(ServerC1) /\ api_key \in ApiKeys /\ max_pages >= 4)
       => /\ \A i \in 1..Len(requests) : requests[i].page # 4
          /\ fpc = "returned" =>
               /\ NumRows(result) = 3400
               /\ Len(requests) = 4

C1_Witness ==
  /\ fpc = "returned" /\ max_pages = DefaultMaxPages /\ Follows(ServerC1)
  /\ Len(requests) = 4 /\ NumRows(result) = 3400

C2_Bound ==
  /\ Len(requests) <= max_pages
  /\ (Follows(ServerC2) /\ api_key \in ApiKeys /\ max_pages = 5 /\ fpc = "returned")
       => /\ Len(requests) = 5
          /\ \A i \in 1..5 : requests[i].page = i - 1
          /\ NumRows(result) = 5000

\* C2: for every max_pages >= 0 the call makes at most max_pages requests and
\* returns; with max_pages = 5 and 1000 rows on every page it makes exactly
\* the five requests for pages 0..4 and returns 5000 rows.
C2_BoundedAndTerminates == [](C2_Bound) /\ <>(fpc = "returned")

C2_Witness ==
  /\ fpc = "returned" /\ max_pages = 5 /\ Follows(ServerC2)
  /\ Len(requests) = 5 /\ NumRows(result) = 5000

Failures == {"exception", "status", "no_key"}

\* C3: a transport exception, a non-200 status or a payload without the
\* service key on page k ends the requests (no retry, no page k+1); the call
\* returns exactly the rows of pages 0..k-1 in page order and does not raise.
C3_ErrorStops ==
  \A i \in 1..Len(responses) :
    responses[i].kind \in Failures =>
      /\ i = Len(requests)
      /\ \A j \in 1..(i - 1) : requests[j].page = j - 1 /\ responses[j] = Full
      /\ requests[i].page = i - 1
      /\ fpc \in {"break", "returned"}
      /\ all_rows = RowsOfPages(i - 1)
      /\ fpc = "returned" => result = RowsOfPages(i - 1)

C3_Witness ==
  /\ fpc = "returned" /\ Len(responses) = 3
  /\ responses[3].kind = "status"
  /\ NumRows(result) = 2000

----------------------------------------------------------------------------
(* Properties of the page script *)

Acquired == {"preprocess", "guard", "mega", "tab1", "tab2", "done", "stopped"}

C9_Cache ==
  /\ refresh => hits = {}
  /\ (refresh /\ pc \in Acquired /\ option = "api" /\ API_KEY \in ApiKeys)
       => {"load_2025_csv", "fetch_2026_api_data"} \subseteq bodies
  /\ (refresh /\ pc \in Acquired /\ option = "local")
       => {"load_2025_csv", "load_local_data"} \subseteq bodies
  /\ (~refresh /\ option = "api" /\ "fetch_2026_api_data" \in warm)
       => /\ http = 0
          /\ "fetch_2026_api_data" \notin bodies
          /\ pc \in Acquired =>
               /\ "fetch_2026_api_data" \in hits
               /\ df26 = cacheFetch[API_KEY].val
  /\ "load_2025_csv" \in warm => "load_2025_csv" \notin bodies

C9_Witness ==
  /\ ~refresh /\ pc = "done" /\ option = "api"
  /\ hits = {"load_2025_csv", "fetch_2026_api_data"}
  /\ now - cacheFetch[API_KEY].at = Tick
  /\ ~IsEmpty(df26) /\ http = 0

\* C10: a render whose normalized table is empty stops before any
\* aggregation; the mega extraction, the detail extraction and the trends run
\* only on a non-empty normalized table; with the 2025 file missing the
\* render is not stopped when the fetched rows survive normalization.
C10_EmptyStops ==
  /\ ran # {} => ~IsEmpty(df)
  /\ pc \in {"mega", "tab1", "tab2", "done"} => ~IsEmpty(df)
  /\ pc = "stopped" => (IsEmpty(df) /\ ran = {})
  /\ (pc \in (Acquired \ {"preprocess", "guard"}) /\ option = "api"
        /\ ~file25.exists /\ ~IsEmpty(preprocess_data(df26)))
       => (pc # "stopped" /\ df25 = <<>>)

C10_Witness ==
  /\ pc = "stopped" /\ ~IsEmpty(df_raw) /\ IsEmpty(df) /\ ran = {}

----------------------------------------------------------------------------
(* Properties of the pipeline, lines 159-309 *)

Normalized == {"guard", "mega", "tab1", "tab2", "done", "stopped", "raised"}

Numeric(x) == x.kind \in {"num", "numstr"}

\* C5 as stated: after preprocess_data every record is dated 2025-01-01 or
\* later and has a non-null numeric price.
C5_PriceNeverNull ==
  pc \in Normalized =>
    \A i \in 1..Len(df) :
      /\ DateGE(df[i].row.CTRT_DAY, Cutoff)
      /\ ~df[i].row.THING_AMT.nan

\* C5 amended: after preprocess_data every record is dated 2025-01-01 or
\* later; its price is the source price divided by 10000 when that is
\* numeric and null otherwise (the row is kept).
C5_PriceScaledOrNull ==
  pc \in Normalized =>
    \A i \in 1..Len(df) :
      LET o == RowSeq[df[i].row.src].THING_AMT
          a == df[i].row.THING_AMT
      IN  /\ DateGE(df[i].row.CTRT_DAY, Cutoff)
          /\ Numeric(o) => (~a.nan /\ a.num = o.val /\ a.den = 10000)
          /\ ~Numeric(o) => a.nan

C5_Witness ==
  /\ pc = "guard" /\ Len(df) = 2 /\ Len(df_raw) = 3
  /\ df[1].row.THING_AMT.nan /\ ~df[2].row.THING_AMT.nan

\* the first keyword of the list found in the name
GroupOf(name) ==
  LET kw == mega_complexes_keywords
  IN  IF \E j \in 1..Len(kw) : Contains(name, kw[j])
      THEN kw[CHOOSE j \in 1..Len(kw) :
                /\ Contains(name, kw[j])
                /\ \A i \in 1..(j - 1) : ~Contains(name, kw[i])]
      ELSE name

Source(t) ==
  [i \in 1..Len(t) |->
     [n |-> t[i].n,
      row |-> [f \in {"CTRT_DAY", "BLDG_NM", "ARCH_AREA", "THING_AMT", "src"}
                 |-> t[i].row[f]]]]

InGroup(g) ==
  SelectSeq(df, LAMBDA r : r.row.BLDG_NM # NullName /\ GroupOf(r.row.BLDG_NM) = g)

AreaCount(g, a) ==
  NumRows(SelectSeq(InGroup(g), LAMBDA r : round0(r.row.ARCH_AREA) = a))

Complex == SelectSeq(df, LAMBDA r : r.row.BLDG_NM # NullName
                                      /\ Contains(r.row.BLDG_NM, <<"taegang">>))

AreasOf(t) == {t[i].row.ARCH_AREA : i \in 1..Len(t)}

\* the whole square metres of an area given in tenths
IntPart(a) == CHOOSE k \in 0..1000 : 10 * k <= a /\ a < 10 * k + 10

CaseC7 ==
  /\ pc = "done" /\ area_choice = "49 type"
  /\ AreasOf(Complex) = {489, 496, 502}

\* C7 as stated: for target 49 over areas 48.9, 49.6 and 50.2 the rows with
\* 48.9 and 49.6 are selected and the fallback is not taken.
C7_Selects489And496 ==
  CaseC7 => (AreasOf(taegang_filtered) = {489, 496} /\ fallbacks = 0)

\* C7 amended: for target 49 over areas 48.9, 49.6 and 50.2 exactly the rows
\* with 49.6 are selected (48.9 truncates to 48, 50.2 to 50) and the fallback
\* is not taken.
C7_Selects496 ==
  CaseC7 =>
    /\ Source(taegang_filtered)
         = SelectSeq(Complex, LAMBDA r : r.row.ARCH_AREA = 496)
    /\ AreasOf(taegang_filtered) = {496}
    /\ fallbacks = 0 /\ target_area = 49

C7_Witness == CaseC7 /\ Len(taegang_filtered) = 1

WithInt(k) == SelectSeq(Complex, LAMBDA r : IntPart(r.row.ARCH_AREA) = k)

====
